---- MODULE Spec2Model ----
(***************************************************************************)
(* rusty_pomo: the phase timer (src/src/state.rs), the notifier gate       *)
(* (src/src/notifications.rs) and the control loop (src/src/run.rs).       *)
(*                                                                         *)
(* src/src/main.rs holds an older copy of the same timer and loop in one    *)
(* file; the modules above are what is modelled.                           *)
(*                                                                         *)
(* Time is counted in whole seconds.  An Instant is the number of seconds  *)
(* on the monotonic clock, a Duration a number of seconds.  Option<T> is   *)
(* a set with at most one element: {} is None, {t} is Some(t).             *)
(***************************************************************************)
EXTENDS Integers, FiniteSets, Sequences, TLC

\* ---------------------------------------------------------------- bounds
\* The monotonic clock stops at MaxClock and advances ClockStep seconds at a time.
MaxClock == 160
ClockStep == 20
\* advance_phase leaves Focus at most MaxSessions times.
MaxSessions == 4
\* --long-every is drawn from 0..MaxLongEvery.
MaxLongEvery == 3
\* The width of u64 scaled down: a u64 holds 0 .. 2^U64Bits - 1.
U64Bits == 8

\* ------------------------------------------------------------- constants
SecsPerMin == 60

\* --focus, --short and --long (minutes, u64) are drawn from these.
FocusChoices == {0, 1}
ShortChoices == {0, 1}
LongChoices == {2}

Focus == "Focus"
ShortBreak == "ShortBreak"
LongBreak == "LongBreak"
PhaseKind == {Focus, ShortBreak, LongBreak}

Args ==
    [focus : FocusChoices, short : ShortChoices, long : LongChoices,
     long_every : 0..MaxLongEvery, notifications : BOOLEAN]

\* u64::MAX + 1
U64Modulus == 2 ^ U64Bits

\* The greatest number of minutes whose seconds fit a u64.
MaxExactMinutes == (U64Modulus - 1) \div SecsPerMin

\* Every u64 for --focus; for --short and --long a value whose seconds fit
\* and one whose seconds do not.
WideArgs ==
    [focus : 0..(U64Modulus - 1),
     short : {1, MaxExactMinutes + 1},
     long : {2, U64Modulus \div 4},
     long_every : {2}, notifications : {FALSE}]

VARIABLES
    args,              \* AppState.args (read-only after construction)
    session_index,     \* AppState.session_index
    current_phase,     \* AppState.current_phase: [kind, duration]
    phase_started_at,  \* AppState.phase_started_at
    paused,            \* AppState.paused
    paused_at,         \* AppState.paused_at: {} or {instant}
    now,               \* the reading Instant::now() returns
    pc,                \* position of run(): draw, check, advance, poll, done, panicked;
                       \* with its terminal calls also enable_raw, enter_alt,
                       \* new_terminal, hide_cursor, show_cursor, disable_raw,
                       \* leave_alt and failed (run returned an Err)
    raw_mode,          \* the terminal is in raw mode
    alt_screen,        \* the terminal shows the alternate screen (with mouse capture)
    key,               \* the key the last poll of run() read
    notified,          \* the phase-change notifications dispatched since the last draw
    show_result,       \* the Result of the last n.show() since the last draw, or "none"
    h_phase_began,     \* history: the instant the current phase was (re)started
    h_elapsed_at_pause, \* history: {elapsed_in_phase when the running pause began}
    h_pause_began,     \* history: {the instant the running pause began}
    h_paused_total     \* history: the total length of the completed pauses of the phase

vars ==
    <<args, session_index, current_phase, phase_started_at, paused, paused_at,
      now, pc, raw_mode, alt_screen, key, notified, show_result,
      h_phase_began, h_elapsed_at_pause, h_pause_began, h_paused_total>>

term == <<raw_mode, alt_screen>>

hist == <<h_phase_began, h_elapsed_at_pause, h_pause_began, h_paused_total>>

timer == <<session_index, current_phase, phase_started_at, paused, paused_at>>

\* ------------------------------------------------------- pure functions

\* A subtraction that does not saturate.
SaturatingSub_Plain(a, b) == a - b

\* Instant::saturating_duration_since and Duration::saturating_sub.
SaturatingSub(a, b) == IF a >= b THEN a - b ELSE 0

\* minutes * 60 on u64 exceeds u64::MAX.
Overflows(m) == m * SecsPerMin >= U64Modulus

\* Duration::from_secs(minutes * 60): the product is a u64, which wraps when it
\* overflows in a build without overflow checks (with them it panics, see
\* NewAppState and AdvancePhase).
FromMinutes(m) == (m * SecsPerMin) % U64Modulus

\* The configured minutes of a phase kind.
MinutesOf(kind) ==
    CASE kind = Focus -> args.focus
      [] kind = ShortBreak -> args.short
      [] kind = LongBreak -> args.long

\* The Phase advance_phase and new build for a kind.
PhaseOf(kind) ==
    [kind |-> kind, duration |-> FromMinutes(MinutesOf(kind))]

ElapsedInPhase_IgnorePause(t) == SaturatingSub(t, phase_started_at)

ElapsedInPhase(t) ==
    IF paused
    THEN IF paused_at # {}
         THEN SaturatingSub(CHOOSE p \in paused_at : TRUE, phase_started_at)
         ELSE 0
    ELSE SaturatingSub(t, phase_started_at)

TimeRemaining_FromClockZero(t) == SaturatingSub(current_phase.duration, t)

TimeRemaining(t) == SaturatingSub(current_phase.duration, ElapsedInPhase(t))

\* progress() is the ratio ProgressNum(t) / ProgressDen: the denominator is
\* duration.max(1.0), the numerator is the elapsed time clamped so that the
\* ratio stays in [0, 1].  The f64 quotient is kept as this exact ratio of
\* whole seconds.
ProgressDen_NoFloor == current_phase.duration

ProgressDen == IF current_phase.duration >= 1 THEN current_phase.duration ELSE 1

ProgressNum(t) ==
    LET elapsed == ElapsedInPhase(t)
    IN  IF elapsed < 0 THEN 0
        ELSE IF elapsed > ProgressDen THEN ProgressDen
        ELSE elapsed

KindAfterFocus_Swapped(idx) ==
    IF idx % args.long_every = 0 THEN ShortBreak ELSE LongBreak

\* The remainder taken of the counter before its increment.
KindAfterFocus_OldIndex(idx) ==
    IF (idx - 1) % args.long_every = 0 THEN LongBreak ELSE ShortBreak

\* The kind advance_phase selects after a Focus phase, from the incremented counter.
KindAfterFocus(idx) == IF idx % args.long_every = 0 THEN LongBreak ELSE ShortBreak

NextKind_BreakAfterBreak(idx) ==
    CASE current_phase.kind = Focus -> KindAfterFocus(idx)
      [] current_phase.kind = ShortBreak -> LongBreak
      [] current_phase.kind = LongBreak -> Focus

\* next_kind of advance_phase; idx is session_index after the Focus arm's increment.
NextKind(idx) ==
    IF current_phase.kind = Focus THEN KindAfterFocus(idx) ELSE Focus

NextSessionIndex_Always == session_index + 1

\* session_index after the match of advance_phase: incremented in the Focus arm only.
NextSessionIndex ==
    IF current_phase.kind = Focus THEN session_index + 1 ELSE session_index

MaybeNotify_OldKind(kind) ==
    IF args.notifications THEN <<current_phase.kind>> ELSE <<>>

\* maybe_notify up to n.show(): the notifications dispatched for the phase of
\* the given kind, none unless args.notifications.
MaybeNotify(kind) == IF args.notifications THEN <<kind>> ELSE <<>>

\* Notification::show returns a Result.
ShowResults == {"Ok", "Err"}

AfterShow_Unwrap(r, ret) == IF r = "Err" THEN "panicked" ELSE ret

\* let _ = n.show(): the Result r is dropped, maybe_notify and advance_phase
\* return to position ret of run().
AfterShow(r, ret) == ret

\* ---------------------------------------------------------- operations

\* History kept beside reset_phase: the phase (re)starts now, no pause is running.
HistReset ==
    /\ h_phase_began' = now
    /\ h_elapsed_at_pause' = {}
    /\ h_pause_began' = {}
    /\ h_paused_total' = 0

\* History kept beside toggle_pause when it pauses: a pause begins now.
HistPause ==
    /\ h_elapsed_at_pause' = {ElapsedInPhase(now)}
    /\ h_pause_began' = {now}
    /\ h_paused_total' = h_paused_total

\* History kept beside toggle_pause when it resumes: the pause that ends now
\* is added to the completed pauses of the phase.
HistResume ==
    /\ h_elapsed_at_pause' = {}
    /\ h_pause_began' = {}
    /\ h_paused_total' =
           h_paused_total
           + (IF h_pause_began = {} THEN 0 ELSE now - (CHOOSE b \in h_pause_began : TRUE))

ResetPhase_KeepPausedAt ==
    /\ phase_started_at' = now
    /\ paused' = FALSE
    /\ UNCHANGED paused_at

ResetPhase_KeepStart ==
    /\ phase_started_at' = phase_started_at
    /\ paused' = FALSE
    /\ paused_at' = {}

ResetPhase ==
    /\ phase_started_at' = now
    /\ paused' = FALSE
    /\ paused_at' = {}

TogglePause_NoShift ==
    /\ IF paused
       THEN /\ phase_started_at' = phase_started_at
            /\ paused_at' = {}
            /\ paused' = FALSE
            /\ HistResume
       ELSE /\ paused' = TRUE
            /\ paused_at' = {now}
            /\ phase_started_at' = phase_started_at
            /\ HistPause
    /\ UNCHANGED <<session_index, current_phase, h_phase_began>>

TogglePause_ShiftFromZero ==
    /\ IF paused
       THEN /\ phase_started_at' = phase_started_at + now
            /\ paused_at' = {}
            /\ paused' = FALSE
            /\ HistResume
       ELSE /\ paused' = TRUE
            /\ paused_at' = {now}
            /\ phase_started_at' = phase_started_at
            /\ HistPause
    /\ UNCHANGED <<session_index, current_phase, h_phase_began>>

\* A resume that takes the span from the start of the phase, not from paused_at.
TogglePause_SpanFromStart ==
    /\ IF paused
       THEN /\ phase_started_at' =
                   phase_started_at + SaturatingSub(now, phase_started_at)
            /\ paused_at' = {}
            /\ paused' = FALSE
            /\ HistResume
       ELSE /\ paused' = TRUE
            /\ paused_at' = {now}
            /\ phase_started_at' = phase_started_at
            /\ HistPause
    /\ UNCHANGED <<session_index, current_phase, h_phase_began>>

TogglePause ==
    /\ IF paused
       THEN /\ IF paused_at # {}
               THEN phase_started_at' =
                        phase_started_at
                        + SaturatingSub(now, CHOOSE p \in paused_at : TRUE)
               ELSE phase_started_at' = phase_started_at
            /\ paused_at' = {}
            /\ paused' = FALSE
            /\ HistResume
       ELSE /\ paused' = TRUE
            /\ paused_at' = {now}
            /\ phase_started_at' = phase_started_at
            /\ HistPause
    /\ UNCHANGED <<session_index, current_phase, h_phase_began>>

\* advance_phase, returning to position ret of run().  From Focus with
\* long_every = 0 the remainder panics after the counter was incremented:
\* the call never returns and run() is unwound.  So it is when the seconds of
\* the next phase overflow in a build with overflow checks; in a build without
\* them the product wraps and the call goes on.
AdvancePhase(ret) ==
    /\ current_phase.kind = Focus => session_index < MaxSessions
    /\ session_index' = NextSessionIndex
    /\ IF current_phase.kind = Focus /\ args.long_every = 0
       THEN /\ pc' = "panicked"
            /\ UNCHANGED <<current_phase, phase_started_at, paused, paused_at,
                           notified, show_result, hist>>
       ELSE \/ /\ Overflows(MinutesOf(NextKind(session_index')))
               /\ pc' = "panicked"
               /\ UNCHANGED <<current_phase, phase_started_at, paused, paused_at,
                              notified, show_result, hist>>
            \/ /\ current_phase' = PhaseOf(NextKind(session_index'))
               /\ ResetPhase
               /\ HistReset
               /\ notified' = notified \o MaybeNotify(current_phase'.kind)
               /\ IF args.notifications
                  THEN \E r \in ShowResults :
                           /\ show_result' = r
                           /\ pc' = AfterShow(r, ret)
                  ELSE /\ show_result' = show_result
                       /\ pc' = ret

Skip_UnlessPaused(ret) == ~paused /\ AdvancePhase(ret)

Skip(ret) == AdvancePhase(ret)

\* ------------------------------------------------------------ the system

\* AppState::new(config), for a config whose focus seconds fit a u64 and, in
\* a build without overflow checks, for one whose seconds wrap.
NewAppState(config) ==
    /\ args = config
    /\ session_index = 0
    /\ current_phase = PhaseOf(Focus)
    /\ now = 0
    /\ phase_started_at = now
    /\ paused = FALSE
    /\ paused_at = {}
    /\ key = "none"
    /\ notified = <<>>
    /\ show_result = "none"
    /\ h_phase_began = now
    /\ h_elapsed_at_pause = {}
    /\ h_pause_began = {}
    /\ h_paused_total = 0

\* main: Args::parse, AppState::new, and run up to its first draw with the
\* terminal set up.
Init ==
    /\ \E config \in Args : NewAppState(config)
    /\ pc = "draw"
    /\ raw_mode = TRUE
    /\ alt_screen = TRUE

\* The monotonic clock advances.
Tick ==
    /\ pc \notin {"done", "panicked", "failed"}
    /\ now + ClockStep <= MaxClock
    /\ now' = now + ClockStep
    /\ UNCHANGED <<args, term, timer, pc, key, notified, show_result, hist>>

\* A loop that waits for input right after the render, before the check.
Draw_ThenPoll ==
    /\ pc = "draw"
    /\ pc' = "poll"
    /\ key' = "none"
    /\ notified' = <<>>
    /\ show_result' = "none"
    /\ UNCHANGED <<args, term, timer, now, hist>>

\* terminal.draw(ui::draw): reads the timer, changes nothing of it.
Draw ==
    /\ pc = "draw"
    /\ pc' = "check"
    /\ key' = "none"
    /\ notified' = <<>>
    /\ show_result' = "none"
    /\ UNCHANGED <<args, term, timer, now, hist>>

CheckDue_IgnorePause ==
    /\ pc = "check"
    /\ pc' = IF TimeRemaining(now) = 0 THEN "advance" ELSE "poll"
    /\ UNCHANGED <<args, term, timer, now, key, notified, show_result, hist>>

\* if app.time_remaining(Instant::now()).is_zero() && !app.paused
CheckDue ==
    /\ pc = "check"
    /\ pc' = IF TimeRemaining(now) = 0 /\ ~paused THEN "advance" ELSE "poll"
    /\ UNCHANGED <<args, term, timer, now, key, notified, show_result, hist>>

\* ... { app.advance_phase(); }
AutoAdvance ==
    /\ pc = "advance"
    /\ AdvancePhase("poll")
    /\ UNCHANGED <<args, term, now, key>>

KeySpace ==
    /\ pc = "poll"
    /\ key' = " "
    /\ TogglePause
    /\ pc' = "draw"
    /\ UNCHANGED <<args, term, now, notified, show_result>>

KeyN ==
    /\ pc = "poll"
    /\ key' = "n"
    /\ Skip("draw")
    /\ UNCHANGED <<args, term, now>>

KeyR ==
    /\ pc = "poll"
    /\ key' = "r"
    /\ ResetPhase
    /\ HistReset
    /\ pc' = "draw"
    /\ UNCHANGED <<args, term, session_index, current_phase, now, notified, show_result>>

\* q or Esc: break, then the teardown of run with every call succeeding.
KeyQuit ==
    /\ pc = "poll"
    /\ key' = "q"
    /\ pc' = "done"
    /\ raw_mode' = FALSE
    /\ alt_screen' = FALSE
    /\ UNCHANGED <<args, timer, now, notified, show_result, hist>>

\* The poll timed out, or the event was no key press, or another key.
NoKey ==
    /\ pc = "poll"
    /\ key' = "none"
    /\ pc' = "draw"
    /\ UNCHANGED <<args, term, timer, now, notified, show_result, hist>>

Next ==
    \/ Tick
    \/ Draw
    \/ CheckDue
    \/ AutoAdvance
    \/ KeySpace
    \/ KeyN
    \/ KeyR
    \/ KeyQuit
    \/ NoKey

Spec == Init /\ [][Next]_vars

\* ------------------------------------------ run() with its terminal calls

\* main: Args::parse, AppState::new, and the entry of run.
InitTerm ==
    /\ \E config \in Args : NewAppState(config)
    /\ pc = "enable_raw"
    /\ raw_mode = FALSE
    /\ alt_screen = FALSE

\* A call of run that returns io::Result and is followed by ?: on Ok run goes
\* on to position next with the terminal fields set by the call, on Err run
\* returns the error at once and the call changed nothing.
TerminalCall(at, next, raw, alt) ==
    /\ pc = at
    /\ \E ok \in BOOLEAN :
           IF ok
           THEN /\ pc' = next
                /\ raw_mode' = raw
                /\ alt_screen' = alt
           ELSE /\ pc' = "failed"
                /\ UNCHANGED term
    /\ UNCHANGED <<args, timer, now, key, notified, show_result, hist>>

\* enable_raw_mode()?
EnableRawMode == TerminalCall("enable_raw", "enter_alt", TRUE, alt_screen)

\* execute!(stdout, EnterAlternateScreen, EnableMouseCapture)?
EnterAlternateScreen == TerminalCall("enter_alt", "new_terminal", raw_mode, TRUE)

\* Terminal::new(backend)?
NewTerminal == TerminalCall("new_terminal", "hide_cursor", raw_mode, alt_screen)

\* terminal.hide_cursor()?
HideCursor == TerminalCall("hide_cursor", "draw", raw_mode, alt_screen)

\* terminal.draw(..)? returns an Err.
DrawFails ==
    /\ pc = "draw"
    /\ pc' = "failed"
    /\ UNCHANGED <<args, term, timer, now, key, notified, show_result, hist>>

\* crossterm::event::poll(timeout)? or event::read()? returns an Err.
PollFails ==
    /\ pc = "poll"
    /\ pc' = "failed"
    /\ UNCHANGED <<args, term, timer, now, key, notified, show_result, hist>>

\* q or Esc: break, on to the teardown.
KeyQuitBreak ==
    /\ pc = "poll"
    /\ key' = "q"
    /\ pc' = "show_cursor"
    /\ UNCHANGED <<args, term, timer, now, notified, show_result, hist>>

\* terminal.show_cursor()?
ShowCursor == TerminalCall("show_cursor", "disable_raw", raw_mode, alt_screen)

\* disable_raw_mode()?
DisableRawMode == TerminalCall("disable_raw", "leave_alt", FALSE, alt_screen)

\* execute!(stdout, LeaveAlternateScreen, DisableMouseCapture)?; Ok(())
LeaveAlternateScreen == TerminalCall("leave_alt", "done", raw_mode, FALSE)

NextTerm ==
    \/ Tick
    \/ EnableRawMode
    \/ EnterAlternateScreen
    \/ NewTerminal
    \/ HideCursor
    \/ Draw
    \/ DrawFails
    \/ CheckDue
    \/ AutoAdvance
    \/ KeySpace
    \/ KeyN
    \/ KeyR
    \/ NoKey
    \/ PollFails
    \/ KeyQuitBreak
    \/ ShowCursor
    \/ DisableRawMode
    \/ LeaveAlternateScreen

SpecTerm == InitTerm /\ [][NextTerm]_vars

\* ------------------------------------------- the loop under fair scheduling

\* A config with one-minute phases and a two-minute long break, for each
\* long_every up to 2.
LiveArgs ==
    [focus : {1}, short : {1}, long : LongChoices,
     long_every : 0..2, notifications : {FALSE}]

InitLive ==
    /\ \E config \in LiveArgs : NewAppState(config)
    /\ pc = "draw"
    /\ raw_mode = TRUE
    /\ alt_screen = TRUE

\* The statements of the loop body up to the poll run one after the other.
LoopStep == Draw \/ CheckDue \/ AutoAdvance

\* event::poll(timeout) returns within the tick rate, with an event or without.
PollStep == KeySpace \/ KeyN \/ KeyR \/ KeyQuit \/ NoKey

\* The clock advances, the loop body runs on, and the poll returns.
SpecLive ==
    /\ InitLive
    /\ [][Next]_vars
    /\ WF_vars(Tick)
    /\ WF_vars(LoopStep)
    /\ WF_vars(PollStep)

\* ------------------------------------ the timer over the whole u64 range

\* main with any u64 for --focus, up to the first draw of run; where the focus
\* seconds overflow, a build with overflow checks panics in AppState::new,
\* before run, and a build without them goes on with the wrapped seconds.
InitWide ==
    /\ \E config \in WideArgs : NewAppState(config)
    /\ \/ /\ pc = "draw"
          /\ raw_mode = TRUE
          /\ alt_screen = TRUE
       \/ /\ Overflows(args.focus)
          /\ pc = "panicked"
          /\ raw_mode = FALSE
          /\ alt_screen = FALSE

\* The loop of run with the clock standing still: the phases are built by the
\* completion check and by skip.
NextWide ==
    \/ Draw
    \/ CheckDue
    \/ AutoAdvance
    \/ KeyN
    \/ NoKey

SpecWide == InitWide /\ [][NextWide]_vars

\* ------------------------------------------------------ steps and readings

\* The step is a call of advance_phase that returned: the automatic one of
\* run() (advance -> poll) or skip() on the key n (poll -> draw).
AdvanceReturned ==
    \/ pc = "advance" /\ pc' = "poll"
    \/ pc = "poll" /\ pc' = "draw" /\ key' = "n"

SkipReturned == pc = "poll" /\ pc' = "draw" /\ key' = "n"

ResumeReturned == pc = "poll" /\ pc' = "draw" /\ key' = " " /\ paused

Breaks == {ShortBreak, LongBreak}

\* The clock readings a query is given: every value of the clock, and the
\* instants 30 s and 1000 s after the start of the phase.
Readings ==
    {k * ClockStep : k \in 0..(MaxClock \div ClockStep)}
        \cup {phase_started_at + 30, phase_started_at + 1000}

\* ------------------------------------------------------------------ C1
\* C1: every advance_phase that returns from a Focus phase has incremented
\* session_index by exactly 1 and entered LongBreak if and only if the
\* incremented session_index % long_every = 0, and ShortBreak otherwise; with
\* long_every = 2 the breaks are ShortBreak after an odd count and LongBreak
\* after an even one (Focus, ShortBreak, Focus, LongBreak, ...).
C1_FocusAdvance ==
    [][(current_phase.kind = Focus /\ AdvanceReturned) =>
          /\ session_index' = session_index + 1
          /\ current_phase'.kind \in Breaks
          /\ current_phase'.kind = LongBreak <=>
                 session_index' % args.long_every = 0
          /\ args.long_every = 2 =>
                 current_phase'.kind =
                     (IF session_index' \in {2, 4, 6} THEN LongBreak ELSE ShortBreak)
      ]_vars

\* The second Focus phase of a long_every = 2 timer ended in a LongBreak.
C1_Witness ==
    /\ args.long_every = 2
    /\ current_phase.kind = LongBreak
    /\ session_index = 2

\* ------------------------------------------------------------------ C2
\* C2: every advance_phase from ShortBreak or LongBreak enters Focus and leaves
\* session_index unchanged, and no step at all takes a break to another break.
C2_BreakAdvance ==
    [][/\ (current_phase.kind \in Breaks /\ AdvanceReturned) =>
              /\ current_phase'.kind = Focus
              /\ session_index' = session_index
       /\ current_phase.kind \in Breaks =>
              current_phase'.kind \in {current_phase.kind, Focus}
      ]_vars

\* A Focus phase entered from a break by skip.
C2_Witness ==
    /\ current_phase.kind = Focus
    /\ session_index = 1
    /\ key = "n"
    /\ pc = "draw"

\* ------------------------------------------------------------------ C3
\* C3: session_index starts at 0 and, while the timer exists, a step changes it
\* exactly when the step leaves Focus for a break, and then by +1; no other
\* step (pause, resume, reset, break -> Focus, draw, check, clock) changes it.
C3_SessionIndexCounts ==
    /\ session_index = 0
    /\ [][pc' # "panicked" =>
             session_index' =
                 (IF current_phase.kind = Focus /\ current_phase'.kind \in Breaks
                  THEN session_index + 1
                  ELSE session_index)
         ]_vars

\* Two Focus phases were left, a break was left, and resets and pauses happened.
C3_Witness ==
    /\ session_index = 2
    /\ current_phase.kind = Focus
    /\ paused
    /\ h_phase_began > 0

\* ------------------------------------------------------------------ C4
\* C4: paused_at is set if and only if paused is true.
C4_PausedAtIffPaused == (paused_at # {}) <=> paused

\* A pause running in a break, after a transition.
C4_Witness ==
    /\ paused
    /\ paused_at = {now}
    /\ current_phase.kind = ShortBreak

\* ------------------------------------------------------------------ C5
\* C5: phase_started_at never exceeds the clock reading.
C5_StartNotAfterNow == phase_started_at <= now

\* Just after a resume that shifted phase_started_at forward, up to the clock
\* reading itself (the pause began at elapsed time zero).
C5_Witness ==
    /\ pc = "draw"
    /\ key = " "
    /\ ~paused
    /\ phase_started_at > h_phase_began
    /\ phase_started_at = now

\* ------------------------------------------------------------------ C6
\* C6: while paused, elapsed_in_phase is paused_at - phase_started_at at every
\* clock reading at or after paused_at, and time_remaining is the same at all
\* of them.
C6_PausedFreezes ==
    paused =>
        /\ paused_at # {}
        /\ \A p \in paused_at :
           \A t \in Readings :
               t >= p =>
                   /\ ElapsedInPhase(t) = p - phase_started_at
                   /\ ElapsedInPhase(t) = ElapsedInPhase(p)
                   /\ TimeRemaining(t) = TimeRemaining(p)

\* Paused with time elapsed before the pause and time passed since.
C6_Witness ==
    /\ paused
    /\ \E p \in paused_at : p > phase_started_at /\ now > p

\* ------------------------------------------------------------------ C7
\* C7: at the instant toggle_pause resumes, elapsed_in_phase equals
\* elapsed_in_phase at the instant the pause began.
C7_ResumeContinuity ==
    [][ResumeReturned => h_elapsed_at_pause = {ElapsedInPhase(now)'}]_vars

\* Just after a resume of a pause of positive length begun mid-phase.
C7_Witness ==
    /\ pc = "draw"
    /\ key = " "
    /\ ~paused
    /\ phase_started_at > h_phase_began
    /\ ElapsedInPhase(now) > 0

\* ------------------------------------------------------------------ C8
\* C8: unpaused, at every reading from phase_started_at to the end of the
\* phase, elapsed_in_phase + time_remaining is the duration of the phase
\* (30 s into a 60 s phase 30 s remain).
C8_ElapsedPlusRemaining ==
    ~paused =>
        /\ \A t \in Readings :
               (phase_started_at <= t /\ t <= phase_started_at + current_phase.duration)
                   => ElapsedInPhase(t) + TimeRemaining(t) = current_phase.duration
        /\ current_phase.duration = 60 => TimeRemaining(phase_started_at + 30) = 30

\* Running, strictly inside a phase that did not start at clock zero.
C8_Witness ==
    /\ ~paused
    /\ phase_started_at > 0
    /\ now > phase_started_at
    /\ now < phase_started_at + current_phase.duration

\* ------------------------------------------------------------------ C9
\* C9: the denominator of progress is at least 1 second, progress lies in
\* [0, 1] at every reading, and unpaused it does not decrease when the reading
\* grows by a second, a clock step or 1000 s.
C9_Progress ==
    /\ ProgressDen >= 1
    /\ \A t \in Readings :
           /\ 0 <= ProgressNum(t)
           /\ ProgressNum(t) <= ProgressDen
           /\ ~paused =>
                  \A d \in {1, ClockStep, 1000} : ProgressNum(t) <= ProgressNum(t + d)

\* A zero-duration phase with time elapsed: progress is 1, not a division by zero.
C9_Witness ==
    /\ current_phase.duration = 0
    /\ ~paused
    /\ now > phase_started_at
    /\ ProgressNum(now) = ProgressDen

\* ------------------------------------------------------------------ C10
\* C10: at every poll of run() skip can be taken whatever the remaining time
\* and whether or not the timer is paused, and every skip that returns has
\* made the transition of advance_phase (Focus to the break the incremented
\* counter selects, a break to Focus) into a phase that is unpaused and has
\* zero elapsed time.
C10_SkipAlways ==
    /\ []((pc = "poll" /\ (current_phase.kind = Focus => session_index < MaxSessions))
             => ENABLED KeyN)
    /\ [][SkipReturned =>
             /\ current_phase'.kind =
                    (IF current_phase.kind # Focus THEN Focus
                     ELSE IF (session_index + 1) % args.long_every = 0 THEN LongBreak
                     ELSE ShortBreak)
             /\ ~paused'
             /\ paused_at' = {}
             /\ ElapsedInPhase(now)' = 0
             /\ TimeRemaining(now)' = current_phase'.duration
         ]_vars

\* Just after a skip taken at the very start of a one-minute Focus phase.
C10_Witness ==
    /\ pc = "draw"
    /\ key = "n"
    /\ now = 0
    /\ args.focus = 1
    /\ current_phase.kind \in Breaks
    /\ session_index = 1

\* ------------------------------------------------------------------ C11
\* C11: every reset_phase (key r), running or paused, leaves the current phase
\* with zero elapsed time and its full duration remaining, unpaused, paused_at
\* absent, and changes neither the phase kind, the phase duration, session_index
\* nor the notifications shown.
ResetReturned == pc = "poll" /\ pc' = "draw" /\ key' = "r"

C11_ResetFrame ==
    [][ResetReturned =>
          /\ ElapsedInPhase(now)' = 0
          /\ TimeRemaining(now)' = current_phase.duration
          /\ ~paused'
          /\ paused_at' = {}
          /\ current_phase' = current_phase
          /\ session_index' = session_index
          /\ notified' = notified
      ]_vars

\* Just after a reset of a one-minute break, later than the phase began the
\* first time.
C11_Witness ==
    /\ pc = "draw"
    /\ key = "r"
    /\ current_phase.kind = ShortBreak
    /\ current_phase.duration = 60
    /\ session_index = 1
    /\ phase_started_at = now
    /\ now > 0

\* ------------------------------------------------------------------ C12
\* C12: the completion check of run() goes on to advance_phase if and only if
\* time_remaining is zero and the timer is not paused, the automatic
\* advance_phase is only ever about to run on an unpaused, expired phase, and a
\* step that changes the phase kind or session_index of a paused timer is a skip.
C12_AutoAdvanceIffDue ==
    /\ [](pc = "advance" => (~paused /\ TimeRemaining(now) = 0))
    /\ [][/\ (pc = "check" /\ pc' # "check") =>
                 /\ pc' \in {"advance", "poll"}
                 /\ pc' = "advance" <=> (TimeRemaining(now) = 0 /\ ~paused)
          /\ (pc # "advance" /\ pc' = "advance") => pc = "check"
          /\ (paused /\ (current_phase'.kind # current_phase.kind
                            \/ session_index' # session_index))
                 => (pc = "poll" /\ key' = "n")
         ]_vars

\* A paused timer whose phase has no time left passed the completion check
\* without being advanced.
C12_Witness ==
    /\ pc = "poll"
    /\ key = "none"
    /\ paused
    /\ current_phase.duration = 60
    /\ TimeRemaining(now) = 0
    /\ \E p \in paused_at : now > p

\* ------------------------------------------------------------------ C13
\* C13: construct rejects long_every = 0 or clamps it to 1, so that no
\* advance_phase from Focus ever computes session_index % 0: no run of a timer
\* configured with long_every = 0 ends in that panic.
C13_NoModuloByZero == ~(args.long_every = 0 /\ pc = "panicked")

\* ------------------------------------------------------------------ C14
\* C14: construct rejects a zero minute value or floors it to 1, so that the
\* current phase of a timer never has zero duration.
C14_NoZeroDuration == current_phase.duration > 0

\* ------------------------------------------------------------------ C15
\* C15: every advance_phase (automatic or skip) that dispatches a notification
\* completes and returns to the loop, and leaves the timer in the state the
\* transition defines from the state before and the clock alone: the next
\* kind with its configured duration, the counter, phase_started_at = now,
\* unpaused, paused_at absent, the same for the Result Ok and the Result Err.
AdvanceCalled ==
    \/ pc = "advance" /\ pc' # "advance"
    \/ pc = "poll" /\ pc' # "poll" /\ key' = "n"

C15_NotifierOutcomeIgnored ==
    [][(AdvanceCalled /\ Len(notified') > Len(notified)) =>
          /\ show_result' \in ShowResults
          /\ pc' = (IF pc = "advance" THEN "poll" ELSE "draw")
          /\ session_index' =
                 (IF current_phase.kind = Focus THEN session_index + 1
                  ELSE session_index)
          /\ current_phase'.kind =
                 (IF current_phase.kind # Focus THEN Focus
                  ELSE IF session_index' % args.long_every = 0 THEN LongBreak
                  ELSE ShortBreak)
          /\ current_phase'.duration =
                 SecsPerMin *
                     (CASE current_phase'.kind = Focus -> args.focus
                        [] current_phase'.kind = ShortBreak -> args.short
                        [] current_phase'.kind = LongBreak -> args.long)
          /\ phase_started_at' = now
          /\ ~paused'
          /\ paused_at' = {}
      ]_vars

\* An automatic transition into a break completed although n.show() failed.
C15_Witness ==
    /\ show_result = "Err"
    /\ pc = "poll"
    /\ notified = <<ShortBreak>>
    /\ current_phase.kind = ShortBreak
    /\ session_index = 1
    /\ phase_started_at = now
    /\ ~paused

\* ------------------------------------------------------------------ C16
\* C16: with notifications disabled no notification is ever dispatched; every
\* advance_phase that returns (automatic or skip) dispatches exactly one when
\* they are enabled, for the kind of the phase it installed; and no other step
\* of the timer (toggle_pause, reset_phase, the check, the clock) dispatches
\* one.  (The draw of run starts a new record of the notifications.)
C16_OneEventPerTransition ==
    /\ [](~args.notifications => notified = <<>>)
    /\ [][/\ AdvanceReturned =>
                 notified' =
                     notified \o (IF args.notifications
                                  THEN <<current_phase'.kind>>
                                  ELSE <<>>)
          /\ (~AdvanceReturned /\ pc # "draw") => notified' = notified
         ]_vars

\* Two transitions between two draws, an automatic one and a skip, with one
\* notification each.
C16_Witness ==
    /\ args.notifications
    /\ notified = <<ShortBreak, Focus>>
    /\ current_phase.kind = Focus
    /\ pc = "draw"
    /\ key = "n"

\* ------------------------------------------------------------------ C17
\* C17: whenever run() has been left, by quit, by a propagated error of a
\* terminal call or by a panic, the terminal is neither in raw mode nor on the
\* alternate screen.
C17_TerminalRestored ==
    pc \in {"done", "failed", "panicked"} => (~raw_mode /\ ~alt_screen)

\* ------------------------------------------------------------------ C18
\* The clock readings that lie before the logical start of the phase.
EarlierReadings == {t \in Readings : t < phase_started_at}

\* C18 as stated: in every state and for every clock reading, elapsed_in_phase
\* is not negative and is zero for a reading before phase_started_at, and
\* time_remaining lies between zero and the duration of the phase.
C18_ZeroBeforeStart ==
    \A t \in Readings :
        /\ ElapsedInPhase(t) >= 0
        /\ t < phase_started_at => ElapsedInPhase(t) = 0
        /\ TimeRemaining(t) >= 0
        /\ TimeRemaining(t) <= current_phase.duration

\* C18, amended: in every state and for every clock reading, elapsed_in_phase
\* is not negative, time_remaining lies between zero and the duration of the
\* phase, and for a reading before phase_started_at elapsed_in_phase is zero
\* when the timer is not paused and the frozen paused_at - phase_started_at
\* when it is paused.
C18_ClockAnomaliesAbsorbed ==
    \A t \in Readings :
        LET e == ElapsedInPhase(t)
            r == TimeRemaining(t)
        IN  /\ e >= 0
            /\ r >= 0
            /\ r <= current_phase.duration
            /\ t < phase_started_at =>
                   /\ ~paused => e = 0 /\ r = current_phase.duration
                   /\ paused => \A p \in paused_at : e = p - phase_started_at

\* The completion check of a running timer whose phase of positive length
\* began after the clock's first reading, so that a reading before
\* phase_started_at exists and is absorbed.
C18_Witness ==
    /\ pc = "check"
    /\ ~paused
    /\ current_phase.duration > 0
    /\ EarlierReadings # {}
    /\ \A t \in EarlierReadings : ElapsedInPhase(t) = 0

\* ------------------------------------------------------------------ C19
\* C19: the state construct(config) yields is a Focus phase of
\* focus minutes * 60 seconds, with session_index 0, not paused, paused_at
\* absent and phase_started_at the clock reading of the construction, so that
\* no time has elapsed; the config stays the one given.
C19_InitialState ==
    /\ pc # "panicked" =>
           /\ current_phase = [kind |-> Focus, duration |-> args.focus * SecsPerMin]
           /\ session_index = 0
           /\ paused = FALSE
           /\ paused_at = {}
           /\ phase_started_at = now
           /\ ElapsedInPhase(now) = 0
    /\ [][args' = args]_vars

\* ------------------------------------------------------------------ C20
\* C20: for every configured number of minutes m >= 1 the multiplication
\* neither fails nor wraps: no build panics on it, and the phase built from m
\* lasts exactly m * 60 seconds, which is more than zero.
C20_DurationExact ==
    /\ pc # "panicked"
    /\ MinutesOf(current_phase.kind) >= 1 =>
           /\ current_phase.duration = MinutesOf(current_phase.kind) * SecsPerMin
           /\ current_phase.duration > 0

\* ------------------------------------------------------------------ C21
\* The completion check finds the phase due.
Due == TimeRemaining(now) = 0 /\ ~paused

\* C21: an iteration of the loop renders, then makes the completion check,
\* which goes on to advance_phase exactly when the phase is due, then waits for
\* input and handles at most one event before the next render (or the end of
\* the loop); the timer is changed only by the advance of the check and by the
\* one key handled after it, so a due phase is advanced before the key of its
\* iteration is applied and the key acts on the phase the check left.
C21_LoopOrder ==
    [][/\ (pc = "draw" /\ pc' # pc) => (pc' = "check" /\ timer' = timer)
       /\ (pc = "check" /\ pc' # pc) =>
              /\ pc' = (IF Due THEN "advance" ELSE "poll")
              /\ timer' = timer
       /\ (pc = "advance" /\ pc' # pc) =>
              /\ pc' \in {"poll", "panicked"}
              /\ pc' = "poll" => (current_phase'.kind # current_phase.kind
                                    /\ phase_started_at' = now)
       /\ (pc = "poll" /\ pc' # pc) => pc' \in {"draw", "done", "panicked"}
       /\ pc' = pc => timer' = timer
       /\ key' # key => (pc = "poll" \/ pc' = "check")
      ]_vars

\* A render is reached after an iteration whose check advanced the expired
\* Focus phase to a break and whose key n then skipped that break.
C21_Witness ==
    /\ pc = "draw"
    /\ key = "n"
    /\ notified = <<ShortBreak, Focus>>
    /\ args.focus > 0

\* ------------------------------------------------------------------ C22
\* C22: in every state of a live timer the duration of the current phase is the
\* configured minutes of its kind times 60 seconds, and toggle_pause and
\* reset_phase leave the kind and the duration of the phase as they are.
C22_DurationOfKind ==
    /\ [](pc # "panicked" =>
              current_phase.duration = MinutesOf(current_phase.kind) * SecsPerMin)
    /\ [][(pc = "poll" /\ key' \in {" ", "r"}) => current_phase' = current_phase]_vars

\* ------------------------------------------------------------------ C23
\* C23: whenever the timer is not paused, elapsed_in_phase at the clock's
\* reading, and at any later one, is the time since the phase was actually
\* (re)started minus the total length of the pauses completed in the phase
\* since then, as an explicit accumulator of paused time would give it.
C23_ShiftEqualsAccumulator ==
    (~paused /\ pc # "panicked") =>
        \A t \in {now, now + 1, now + 1000} :
            ElapsedInPhase(t) = (t - h_phase_began) - h_paused_total

\* A running timer after more than one step of the clock spent in completed
\* pauses of the phase, with time elapsed before and between them.
C23_Witness ==
    /\ ~paused
    /\ pc = "poll"
    /\ h_phase_began > 0
    /\ h_paused_total >= 2 * ClockStep
    /\ ElapsedInPhase(now) >= 2 * ClockStep
    /\ ElapsedInPhase(now) = (now - h_phase_began) - h_paused_total

\* ------------------------------------------------------------------ C24
\* C24: in every state with long_every >= 1 the kind of the current phase
\* agrees with the counter: a LongBreak has session_index >= 1 and a multiple
\* of long_every, a ShortBreak has session_index >= 1 and no multiple of
\* long_every; so with long_every = 1 there is no ShortBreak.
C24_KindAgreesWithCounter ==
    args.long_every >= 1 =>
        /\ current_phase.kind = LongBreak =>
               (session_index >= 1 /\ session_index % args.long_every = 0)
        /\ current_phase.kind = ShortBreak =>
               (session_index >= 1 /\ session_index % args.long_every # 0)
        /\ args.long_every = 1 => current_phase.kind # ShortBreak

\* The LongBreak after the third Focus phase with long_every = 3, left running.
C24_Witness ==
    /\ current_phase.kind = LongBreak
    /\ args.long_every = 3
    /\ session_index = 3
    /\ pc = "poll"
    /\ now > phase_started_at

\* ------------------------------------------------------------------ C25
\* The keys that quit, pause or resume, and reset.
Commands == {"q", " ", "r"}

\* The greatest reading the clock takes.
MaxReading == (MaxClock \div ClockStep) * ClockStep

\* The current phase can run out and be left before the clock and the session
\* counter reach their bounds.
Within ==
    /\ phase_started_at + current_phase.duration <= MaxReading
    /\ current_phase.kind = Focus => session_index < MaxSessions

\* Every phase that can end within the bounds is left for one of another kind.
PhasesEnd ==
    \A k \in PhaseKind :
        (current_phase.kind = k /\ Within) ~> (current_phase.kind # k \/ ~Within)

\* C25: with the clock advancing and the loop running on, if from some point on
\* no quit, pause or reset key is read and the timer is not paused, then the
\* current phase always ends: a Focus phase is left for a break and a break is
\* left for a Focus phase, again and again, as far as the bounds reach.
C25_CycleProgress == (<>[](key \notin Commands /\ ~paused)) => PhasesEnd

\* The same for the configs with long_every >= 1.
C25_ValidConfigProgress == args.long_every >= 1 => C25_CycleProgress

====
